---- MODULE Spec2Model ----
(***************************************************************************)
(* MediaHub authentication / session subsystem.                            *)
(*                                                                         *)
(* Server side: JWT issue / verify (utils/jwt), the protected-route        *)
(* middleware verifyAccessToken, the user controller (createUser,          *)
(* loginUser, refresh, logoutUser) and userService.                        *)
(* Client side: the axios instance `api` with its request and response     *)
(* interceptors.                                                           *)
(*                                                                         *)
(* Time is counted in units of 15 minutes.                                 *)
(***************************************************************************)
EXTENDS Integers, Sequences, FiniteSets, TLC

\* ------------------------------------------------------------------------
\* Bounds of the model
\* ------------------------------------------------------------------------
MaxTime == 4      \* the clock runs 0..MaxTime (an "1h" token issued at 0 expires at 4)
MaxUsers == 2     \* rows the users table may hold / ids the SERIAL hands out
MaxReq == 4       \* request configs the client has in flight at once
MaxCalls == 3     \* calls the pages of the client make through `api` in one run
\* rows of the clients table, rows of the bookings table
MaxClients == 2
MaxBookings == 2

\* ------------------------------------------------------------------------
\* Values
\* ------------------------------------------------------------------------
Undef == "undefined"                 \* JavaScript undefined for string-valued fields
Absent == "absent"                   \* an environment variable that is not set
Keys == {"k1", "k2", "k3"}           \* secret values a deployment may configure

\* ms("1h"), ms("15m") of jsonwebtoken's expiresIn, in units of 15 minutes
span(s) == CASE s = "1h" -> 4 [] s = "15m" -> 1 [] OTHER -> 0

\* String(id)
String(n) == ToString(n)

\* payload of a JWT; a claim that is not in the payload reads as undefined
\* (id = 0 stands for undefined: SERIAL ids start at 1)
NoPayload == [sub |-> Undef, id |-> 0, email |-> Undef]

\* A bearer / cookie string.  form = "jwt": a compact JWS whose signature was
\* made with `sig`; "none": no value (null / undefined); "empty": "";
\* "garbage": a string that is not a JWS.
NoToken == [form |-> "none", sig |-> "none", payload |-> NoPayload, iat |-> 0, exp |-> 0]
EmptyString == [form |-> "empty", sig |-> "none", payload |-> NoPayload, iat |-> 0, exp |-> 0]
Garbage == [form |-> "garbage", sig |-> "none", payload |-> NoPayload, iat |-> 0, exp |-> 0]

\* truthiness of a string-or-undefined value
Truthy(t) == t.form \in {"jwt", "garbage"}

\* jwt.sign(payload, secret, {expiresIn}): throws when the secret has no value
SignThrows(secret) == secret = Absent
jwt_sign(payload, secret, expiresIn, clock) ==
    [form |-> "jwt", sig |-> secret, payload |-> payload,
     iat |-> clock, exp |-> clock + span(expiresIn)]

\* jwt.verify(token, secret): error unless the string is a JWS, the secret has
\* a value, the signature was made with that secret and exp is in the future
jwt_verify_ok(t, secret, clock) ==
    /\ t.form = "jwt"
    /\ secret # Absent
    /\ t.sig = secret
    /\ clock < t.exp

\* generateToken(payload): signs with JWT_SECRET, expiresIn "1h"
generateToken(payload, env, clock) == jwt_sign(payload, env.JWT_SECRET, "1h", clock)

\* ------------------------------------------------------------------------
\* Authorization header: the value split at single spaces
\* ------------------------------------------------------------------------
NoHeader == [present |-> FALSE, scheme |-> Undef, parts |-> 0, token |-> NoToken]
\* `Bearer ${t}`
Bearer(t) == [present |-> TRUE, scheme |-> "Bearer", parts |-> 2, token |-> t]
\* authHeader.startsWith("Bearer ")
startsWithBearer(h) == h.present /\ h.scheme = "Bearer" /\ h.parts >= 2
\* authHeader.split(" ")[1]
headerToken(h) == h.token

\* ------------------------------------------------------------------------
\* Responses
\* ------------------------------------------------------------------------
NoUser == [id |-> 0, email |-> Undef, name |-> Undef, password_hash |-> Undef,
           provider |-> Undef, provider_id |-> Undef]

\* status, JSON body (message / error, token, accessToken, user, stack),
\* Set-Cookie for "rt" (op: "none" | "set" | "clear"), and what the middleware
\* did: number of next() calls and the payload attached as req.user; and the
\* number of queries the handler sent to the users table
Response(status, msg) ==
    [status |-> status, msg |-> msg, token |-> NoToken, accessToken |-> NoToken,
     user |-> NoUser, stack |-> FALSE,
     cookieOp |-> "none", cookie |-> NoToken, cookiePath |-> Undef,
     httpOnly |-> FALSE, sameSite |-> Undef,
     sent |-> 1, next |-> 0, reqUser |-> NoPayload, queries |-> 0]

\* ------------------------------------------------------------------------
\* verifyAccessToken(req, res, next)
\* ------------------------------------------------------------------------
\* the downstream route handler, run by next(): answers 200 with the resource
protectedHandler(decoded) ==
    [Response(200, "resource") EXCEPT !.next = 1, !.reqUser = decoded]

\* variant: the token is decoded and its signature checked, its expiry is not
verifyAccessToken_ignoreExpiration(authHeader, env, clock) ==
    IF ~startsWithBearer(authHeader)
    THEN Response(401, "Access token missing or invalid")
    ELSE LET token == headerToken(authHeader) IN
         IF ~(token.form = "jwt" /\ token.sig = env.ACCESS_TOKEN_SECRET)
         THEN Response(403, "Invalid or expired token")
         ELSE protectedHandler(token.payload)

\* variant: the `return` before res.status(401) is missing, the request goes on
verifyAccessToken_noReturn(authHeader, env, clock) ==
    LET token == headerToken(authHeader) IN
    IF ~jwt_verify_ok(token, env.ACCESS_TOKEN_SECRET, clock)
    THEN Response(403, "Invalid or expired token")
    ELSE [protectedHandler(token.payload) EXCEPT
            !.sent = IF startsWithBearer(authHeader) THEN 1 ELSE 2]

\* variant: the token is verified with the secret of the refresh tokens too
verifyAccessToken_anySecret(authHeader, env, clock) ==
    IF ~startsWithBearer(authHeader)
    THEN Response(401, "Access token missing or invalid")
    ELSE LET token == headerToken(authHeader) IN
         IF ~(\/ jwt_verify_ok(token, env.ACCESS_TOKEN_SECRET, clock)
              \/ jwt_verify_ok(token, env.REFRESH_TOKEN_SECRET, clock))
         THEN Response(403, "Invalid or expired token")
         ELSE protectedHandler(token.payload)

verifyAccessToken(authHeader, env, clock) ==
    IF ~startsWithBearer(authHeader)
    THEN Response(401, "Access token missing or invalid")
    ELSE LET token == headerToken(authHeader) IN
         IF ~jwt_verify_ok(token, env.ACCESS_TOKEN_SECRET, clock)
         THEN Response(403, "Invalid or expired token")
         ELSE protectedHandler(token.payload)

\* ------------------------------------------------------------------------
\* refresh(req, res)     GET /api/auth/refresh
\* ------------------------------------------------------------------------
\* variant: the cookie is decoded and its signature checked, its expiry is not
refresh_ignoreExpiration(rt, env, clock) ==
    IF ~Truthy(rt) THEN Response(401, "Missing refresh token")
    ELSE IF ~(rt.form = "jwt" /\ rt.sig = env.REFRESH_TOKEN_SECRET)
              \/ SignThrows(env.ACCESS_TOKEN_SECRET)
         THEN Response(401, "Invalid or expired refresh token")
         ELSE [Response(200, "") EXCEPT
                 !.accessToken = jwt_sign([NoPayload EXCEPT !.sub = rt.payload.sub],
                                          env.ACCESS_TOKEN_SECRET, "15m", clock)]

refresh(rt, env, clock) ==
    IF ~Truthy(rt) THEN Response(401, "Missing refresh token")
    ELSE IF ~jwt_verify_ok(rt, env.REFRESH_TOKEN_SECRET, clock)
              \/ SignThrows(env.ACCESS_TOKEN_SECRET)
         THEN Response(401, "Invalid or expired refresh token")
         ELSE [Response(200, "") EXCEPT
                 !.accessToken = jwt_sign([NoPayload EXCEPT !.sub = rt.payload.sub],
                                          env.ACCESS_TOKEN_SECRET, "15m", clock)]

\* ------------------------------------------------------------------------
\* logoutUser(req, res)     POST /api/auth/logout
\* ------------------------------------------------------------------------
\* variant: the handler answers 204 without res.clearCookie
logoutUser_keepsCookie == Response(204, "")

logoutUser ==
    [Response(204, "") EXCEPT !.cookieOp = "clear", !.cookiePath = "/api/auth/refresh"]

\* ------------------------------------------------------------------------
\* Strings of request bodies: trim(), toLowerCase(), the name pattern
\* ------------------------------------------------------------------------
trim(s) == CASE s = " " -> ""
             [] s = " local " -> "local"
             [] s = " secret1" -> "secret1"
             [] s = " a@x.com" -> "a@x.com"
             [] OTHER -> s
toLowerCase(s) == CASE s = "Local" -> "local"
                    [] s = "A@x.com" -> "a@x.com"
                    [] OTHER -> s
\* /^[a-zA-Z0-9\s'-]+$/.test(name.trim()) and at least 2 characters
nameOk(n) == n \notin {"", "N", "N@me"}

\* typeof v === "string"
isString(v) == v # Undef

\* bcrypt.hash(password, saltRounds) and bcrypt.compare(password, hash)
bcrypt_hash(p) == "bcrypt:" \o p
bcrypt_compare(p, h) == h = "bcrypt:" \o p

\* ------------------------------------------------------------------------
\* CreateUserDTO / LoginUserDTO (dtos/user.dto.ts)
\* ------------------------------------------------------------------------
\* new CreateUserDTO(body) throws
CreateUserDTO_throws(b) ==
    LET password == IF b.password = Undef THEN "" ELSE b.password IN
    \/ ~isString(b.email) \/ trim(b.email) = ""
    \/ ~isString(b.provider) \/ trim(b.provider) = ""
    \/ ~isString(b.name) \/ trim(b.name) = ""
    \/ ~nameOk(trim(b.name))
    \/ toLowerCase(trim(b.provider)) \notin {"local", "google", "github"}
    \/ (b.provider = "local" /\ trim(password) = "")

\* the DTO after the constructor and hashPassword()
CreateUserDTO(b) ==
    LET password == IF b.password = Undef THEN "" ELSE b.password IN
    [email |-> toLowerCase(trim(b.email)),
     name |-> trim(b.name),
     password |-> bcrypt_hash(password),
     provider |-> toLowerCase(trim(b.provider)),
     provider_id |-> IF b.provider_id = Undef THEN "" ELSE b.provider_id]

\* new LoginUserDTO(body) throws (password.trim() of a non-string is a TypeError)
LoginUserDTO_throws(b) ==
    \/ ~isString(b.email) \/ trim(b.email) = ""
    \/ ~isString(b.provider) \/ trim(b.provider) = ""
    \/ toLowerCase(trim(b.provider)) \notin {"local", "google", "github"}
    \/ (b.provider = "local" /\ (~isString(b.password) \/ trim(b.password) = ""))
    \/ ~isString(b.password)

LoginUserDTO(b) ==
    [email |-> toLowerCase(trim(b.email)),
     password |-> trim(b.password),
     provider |-> toLowerCase(trim(b.provider))]

\* ------------------------------------------------------------------------
\* userService (services/user.service.ts) over the users table
\* ------------------------------------------------------------------------
\* the INSERT fails: the connection is down, or UNIQUE(email) / 
\* UNIQUE(email, provider) is violated
insertFails(dto, rows, dbUp) ==
    \/ ~dbUp
    \/ \E u \in rows : u.email = dto.email

newRow(dto, id) ==
    [id |-> id, email |-> dto.email, name |-> dto.name, password_hash |-> dto.password,
     provider |-> dto.provider, provider_id |-> dto.provider_id]

\* userService.createUser(dto): {user, token}
userService_createUser(dto, id, env, clock) ==
    LET user == newRow(dto, id) IN
    [user |-> user,
     token |-> generateToken([NoPayload EXCEPT !.email = user.email, !.id = user.id],
                             env, clock)]

\* userService.loginUser(dto): every failure is thrown as new Error(message);
\* "" when nothing is thrown
userService_loginUser_error(dto, rows, dbUp) ==
    LET found == {u \in rows : u.email = dto.email} IN
    IF ~dbUp THEN "query failed"
    ELSE IF Cardinality(found) = 1
    THEN LET loggedInUser == CHOOSE u \in found : TRUE IN
         IF loggedInUser.password_hash \in {Undef, ""}
         THEN "User does not have a password hash."
         ELSE IF ~bcrypt_compare(dto.password, loggedInUser.password_hash)
         THEN "Invalid password."
         ELSE ""
    ELSE IF Cardinality(found) = 0
    THEN "User with email not found"
    ELSE "Error: More than 1 user has email"

userService_loginUser(dto, rows, env, clock) ==
    LET loggedInUser == CHOOSE u \in rows : u.email = dto.email IN
    [user |-> loggedInUser,
     token |-> generateToken([NoPayload EXCEPT !.email = loggedInUser.email,
                                               !.id = loggedInUser.id], env, clock)]

\* ------------------------------------------------------------------------
\* createUser(req, res)     POST /api/auth/register
\* ------------------------------------------------------------------------
createUser(body, rows, id, dbUp, env, clock) ==
    IF CreateUserDTO_throws(body)
    THEN [Response(400, "Bad Request") EXCEPT !.stack = TRUE]
    ELSE LET dto == CreateUserDTO(body) IN
         IF insertFails(dto, rows, dbUp)
         THEN [Response(500, "Server Error") EXCEPT !.stack = TRUE, !.queries = 1]
         ELSE LET result == userService_createUser(dto, id, env, clock) IN
              [Response(201, "Successfully registered user.") EXCEPT
                 !.user = result.user, !.token = result.token, !.queries = 1]

\* the users table after createUser
createUser_rows(body, rows, id, dbUp) ==
    IF CreateUserDTO_throws(body) \/ insertFails(CreateUserDTO(body), rows, dbUp)
    THEN rows
    ELSE rows \cup {newRow(CreateUserDTO(body), id)}

\* ------------------------------------------------------------------------
\* loginUser(req, res)     POST /api/auth/login
\* ------------------------------------------------------------------------
\* variant: the body returns the pair, refresh token included
loginUser_refreshInBody(body, rows, dbUp, env, clock) ==
    IF LoginUserDTO_throws(body)
    THEN [Response(400, "Bad Request") EXCEPT !.stack = TRUE]
    ELSE LET dto == LoginUserDTO(body)
             error == userService_loginUser_error(dto, rows, dbUp) IN
         IF error # ""
         THEN [Response(500, error) EXCEPT !.stack = TRUE, !.queries = 1]
         ELSE IF SignThrows(env.REFRESH_TOKEN_SECRET)
         THEN [Response(500, "secretOrPrivateKey must have a value") EXCEPT
                 !.stack = TRUE, !.queries = 1]
         ELSE LET result == userService_loginUser(dto, rows, env, clock)
                  refreshToken == jwt_sign([NoPayload EXCEPT !.sub = String(result.user.id)],
                                           env.REFRESH_TOKEN_SECRET, "1h", clock) IN
              [Response(200, "User has been logged in.") EXCEPT
                 !.user = result.user, !.token = result.token,
                 !.accessToken = refreshToken,
                 !.cookieOp = "set", !.cookie = refreshToken,
                 !.cookiePath = "/api/auth/refresh",
                 !.httpOnly = TRUE, !.sameSite = "strict", !.queries = 1]

loginUser(body, rows, dbUp, env, clock) ==
    IF LoginUserDTO_throws(body)
    THEN [Response(400, "Bad Request") EXCEPT !.stack = TRUE]
    ELSE LET dto == LoginUserDTO(body)
             error == userService_loginUser_error(dto, rows, dbUp) IN
         IF error # ""
         THEN [Response(500, error) EXCEPT !.stack = TRUE, !.queries = 1]
         ELSE IF SignThrows(env.REFRESH_TOKEN_SECRET)
         THEN [Response(500, "secretOrPrivateKey must have a value") EXCEPT
                 !.stack = TRUE, !.queries = 1]
         ELSE LET result == userService_loginUser(dto, rows, env, clock)
                  refreshToken == jwt_sign([NoPayload EXCEPT !.sub = String(result.user.id)],
                                           env.REFRESH_TOKEN_SECRET, "1h", clock) IN
              [Response(200, "User has been logged in.") EXCEPT
                 !.user = result.user, !.token = result.token,
                 !.cookieOp = "set", !.cookie = refreshToken,
                 !.cookiePath = "/api/auth/refresh",
                 !.httpOnly = TRUE, !.sameSite = "strict", !.queries = 1]

\* ------------------------------------------------------------------------
\* State
\* ------------------------------------------------------------------------
VARIABLES
    env,        \* process.env of the server: the three secrets
    now,        \* the clock
    users,      \* rows of the users table
    nextId,     \* next value of the SERIAL users.id
    rq,         \* the request the server handled last, at time `now`
    rs,         \* the response it sent
    heldAT,     \* access token the API caller obtained last
    heldFrom,   \* the endpoint that returned heldAT
    heldRT,     \* value of the "rt" cookie the API caller obtained last
    token,      \* browser: localStorage item "token"
    location,   \* browser: window.location.pathname
    jar,        \* browser: the cookie "rt" (path /api/auth/refresh)
    reqs,       \* browser: the request configs in flight through `api`
    done,       \* browser: the top-level request that settled in the last step
    calls,      \* browser: how many calls the pages have made
    layout,     \* browser: the state of the ProtectedLayout component
    clients,    \* ids of the rows of the clients table
    bookings,   \* rows of the bookings table
    brq,        \* body of the POST /api/bookings request handled last
    brs         \* what createBooking did for it

serverVars == <<env, users, nextId>>
apiVars == <<rq, rs, heldAT, heldFrom, heldRT>>
clientVars == <<token, location, jar, reqs, done, calls, layout>>
bookingVars == <<clients, bookings, brq, brs>>
vars == <<env, now, users, nextId, rq, rs, heldAT, heldFrom, heldRT,
          token, location, jar, reqs, done, calls, layout,
          clients, bookings, brq, brs>>

\* process.env: JWT_SECRET has a value (utils/jwt throws at load otherwise);
\* nothing checks the other two.  Up to the names of the key values these are
\* all configurations: each pair of secrets equal or different, all three
\* different, ACCESS_TOKEN_SECRET / REFRESH_TOKEN_SECRET set or not.
Envs == [JWT_SECRET : {"k1"}, ACCESS_TOKEN_SECRET : {"k1", "k2", Absent},
         REFRESH_TOKEN_SECRET : Keys \cup {Absent}]

NoBody == [email |-> Undef, name |-> Undef, password |-> Undef,
           provider |-> Undef, provider_id |-> Undef]
\* a request as the server sees it
Request(route, header, cookie, body) ==
    [route |-> route, header |-> header, cookie |-> cookie, body |-> body]
NoRequest == Request("none", NoHeader, NoToken, NoBody)
NoResponse == [Response(0, "") EXCEPT !.sent = 0]

ServerInit ==
    /\ env \in Envs
    /\ now = 0
    /\ users = {}
    /\ nextId = 1

\* time passes; the exchange observed last is over
Tick ==
    /\ now < MaxTime
    /\ now' = now + 1
    /\ rq' = NoRequest
    /\ rs' = NoResponse
    /\ UNCHANGED <<serverVars, heldAT, heldFrom, heldRT, clientVars, bookingVars>>

\* ------------------------------------------------------------------------
\* The HTTP API driven by an arbitrary caller
\* ------------------------------------------------------------------------
RegisterBodies ==
    [email : {"a@x.com", "b@x.com", Undef}, name : {"Name"}, password : {"secret1"},
     provider : {"local"}, provider_id : {Undef}]
LoginBodies ==
    [email : {"a@x.com", "b@x.com"}, name : {Undef}, password : {"secret1", "wrong1"},
     provider : {"local"}, provider_id : {Undef}]
    \cup {[NoBody EXCEPT !.password = "secret1", !.provider = "local"]}

\* a token whose payload was altered after signing: no secret verifies it
tamper(t) == [t EXCEPT !.sig = "tampered"]

\* strings a caller can present as the rt cookie
CookieValues ==
    {heldRT, heldAT, tamper(heldRT), NoToken, EmptyString, Garbage}

\* Authorization headers a caller can present
Headers ==
    {NoHeader}
    \cup {Bearer(t) : t \in {heldAT, heldRT, tamper(heldAT), EmptyString, Garbage} \ {NoToken}}
    \cup {[Bearer(heldAT) EXCEPT !.scheme = "Basic"],
          [Bearer(heldAT) EXCEPT !.scheme = "bearer"],
          [Bearer(NoToken) EXCEPT !.parts = 1]}

\* body of POST /api/bookings
BookingBody(client_id, event_date, event_type, price) ==
    [client_id |-> client_id, event_date |-> event_date, event_type |-> event_type,
     price |-> price]
NoBookingBody == BookingBody(0, Undef, Undef, Undef)
\* what createBooking did: the statuses it passed to res.status(..).json(..),
\* in order (the first is the response; a later call finds the headers
\* sent), and the number of INSERT queries it issued
BookingOutcome(statuses, inserts) == [statuses |-> statuses, inserts |-> inserts]
NoBookingOutcome == BookingOutcome(<<>>, 0)

\* no booking request was handled; the tables of clients and bookings are empty
NoBookingData ==
    /\ clients = {}
    /\ bookings = {}
    /\ brq = NoBookingBody
    /\ brs = NoBookingOutcome

\* no request was handled yet
ApiIdle ==
    /\ rq = NoRequest
    /\ rs = NoResponse
    /\ heldAT = NoToken
    /\ heldFrom = "none"
    /\ heldRT = NoToken

ApiInit == ApiIdle /\ NoBookingData

\* POST /api/auth/register
ApiRegister ==
    \E body \in RegisterBodies, dbUp \in BOOLEAN :
        /\ nextId <= MaxUsers
        /\ rq' = Request("register", NoHeader, NoToken, body)
        /\ rs' = createUser(body, users, nextId, dbUp, env, now)
        /\ users' = createUser_rows(body, users, nextId, dbUp)
        /\ nextId' = IF CreateUserDTO_throws(body) \/ ~dbUp THEN nextId ELSE nextId + 1
        /\ heldAT' = IF rs'.status = 201 THEN rs'.token ELSE heldAT
        /\ heldFrom' = IF rs'.status = 201 THEN "register" ELSE heldFrom
        /\ UNCHANGED <<env, now, heldRT, clientVars, bookingVars>>

\* POST /api/auth/login
ApiLogin ==
    \E body \in LoginBodies, dbUp \in BOOLEAN :
        /\ rq' = Request("login", NoHeader, NoToken, body)
        /\ rs' = loginUser(body, users, dbUp, env, now)
        /\ heldAT' = IF rs'.status = 200 THEN rs'.token ELSE heldAT
        /\ heldFrom' = IF rs'.status = 200 THEN "login" ELSE heldFrom
        /\ heldRT' = IF rs'.cookieOp = "set" THEN rs'.cookie ELSE heldRT
        /\ UNCHANGED <<env, now, users, nextId, clientVars, bookingVars>>

\* a protected route: verifyAccessToken, then the route handler
ApiProtected ==
    \E h \in Headers :
        /\ rq' = Request("protected", h, NoToken, NoBody)
        /\ rs' = verifyAccessToken(h, env, now)
        /\ UNCHANGED <<env, now, users, nextId, heldAT, heldFrom, heldRT, clientVars, bookingVars>>

\* GET /api/auth/refresh
ApiRefresh ==
    \E c \in CookieValues :
        /\ rq' = Request("refresh", NoHeader, c, NoBody)
        /\ rs' = refresh(c, env, now)
        /\ heldAT' = IF rs'.status = 200 THEN rs'.accessToken ELSE heldAT
        /\ heldFrom' = IF rs'.status = 200 THEN "refresh" ELSE heldFrom
        /\ UNCHANGED <<env, now, users, nextId, heldRT, clientVars, bookingVars>>

\* POST /api/auth/logout
ApiLogout ==
    /\ rq' = Request("logout", NoHeader, NoToken, NoBody)
    /\ rs' = logoutUser
    /\ UNCHANGED <<env, now, users, nextId, heldAT, heldFrom, heldRT, clientVars, bookingVars>>

\* the browser before anything happened: no token, no cookie, the login page
\* A request config and the state of its promise.
\*   kind     the endpoint: "protected" | "login" | "logout" | "refresh"
\*   phase    "sent": on its way to the server; "answered": the response is
\*            on its way back; "awaiting": the 401 handler awaits its refresh
\*            call; "free": no such config (its promise has settled)
\*   auth     config.headers.Authorization as last sent
\*   cookie   the rt cookie the browser attached when it was last sent
\*   retry    config.__retry
\*   parent   the request whose 401 handler made this refresh call (0: none)
\*   sends    how often the config was submitted
\*   refreshes  how many refresh calls its 401 handler made
\*   stale    the first submission carried a token that ACCESS_TOKEN_SECRET
\*            verifies but for its expiry, while the rt cookie was valid
\*   res      the response (status 0: no response, a network error)
Config(kind, auth, cookie, body, parent) ==
    [kind |-> kind, phase |-> "sent", auth |-> auth, cookie |-> cookie, body |-> body,
     retry |-> FALSE, parent |-> parent, sends |-> 1, refreshes |-> 0,
     stale |-> FALSE, res |-> NoResponse]
FreeSlot == [Config("none", NoHeader, NoToken, NoBody, 0) EXCEPT !.phase = "free", !.sends = 0]

\* what is remembered of a top-level request when its promise settles
Settled(c, outcome, res) ==
    [kind |-> c.kind, outcome |-> outcome, status |-> res.status,
     retry |-> c.retry, sends |-> c.sends, refreshes |-> c.refreshes, stale |-> c.stale]
NoneSettled == Settled(FreeSlot, "none", NoResponse)

Slots == 1..MaxReq

\* ProtectedLayout: whether the component is mounted and its two useState
\* values, `loading` and `hasToken`
Layout(loading, hasToken) == [mounted |-> TRUE, loading |-> loading, hasToken |-> hasToken]
Unmounted == [mounted |-> FALSE, loading |-> FALSE, hasToken |-> FALSE]
\* what ProtectedLayout renders
Renders(l) ==
    CASE ~l.mounted -> "nothing"
      [] l.loading -> "loading"
      [] ~l.hasToken -> "redirect"
      [] OTHER -> "dashboard"

ClientInit ==
    /\ token = NoToken
    /\ location = "/login"
    /\ jar = NoToken
    /\ reqs = [i \in Slots |-> FreeSlot]
    /\ done = NoneSettled
    /\ calls = 0
    /\ layout = Unmounted

InitApi == ServerInit /\ ApiInit /\ ClientInit

NextApi ==
    \/ Tick
    \/ ApiRegister
    \/ ApiLogin
    \/ ApiProtected
    \/ ApiRefresh
    \/ ApiLogout

SpecApi == InitApi /\ [][NextApi]_vars

\* ------------------------------------------------------------------------
\* Registration and login with bodies of every shape
\* ------------------------------------------------------------------------
\* field values a body can carry: well-formed, padded with blanks, in another
\* case, blank, missing, and a provider outside the allowed set
BodyEmails == {"a@x.com", "A@x.com", " ", Undef}
BodyNames == {"Name", Undef}
BodyPasswords == {"secret1", " secret1", " ", Undef}
BodyProviders == {"local", "Local", "google", "other", Undef}

AnyRegisterBodies ==
    [email : BodyEmails, name : BodyNames, password : BodyPasswords,
     provider : BodyProviders, provider_id : {Undef}]
AnyLoginBodies ==
    [email : BodyEmails \cup {"b@x.com"}, name : {Undef}, password : BodyPasswords,
     provider : BodyProviders, provider_id : {Undef}]

\* POST /api/auth/register with any body
PostRegister ==
    \E body \in AnyRegisterBodies, dbUp \in BOOLEAN :
        /\ nextId <= MaxUsers
        /\ rq' = Request("register", NoHeader, NoToken, body)
        /\ rs' = createUser(body, users, nextId, dbUp, env, now)
        /\ users' = createUser_rows(body, users, nextId, dbUp)
        /\ nextId' = IF CreateUserDTO_throws(body) \/ ~dbUp THEN nextId ELSE nextId + 1
        /\ UNCHANGED <<env, now, heldAT, heldFrom, heldRT, clientVars, bookingVars>>

\* POST /api/auth/login with any body
PostLogin ==
    \E body \in AnyLoginBodies, dbUp \in BOOLEAN :
        /\ rq' = Request("login", NoHeader, NoToken, body)
        /\ rs' = loginUser(body, users, dbUp, env, now)
        /\ UNCHANGED <<env, now, users, nextId, heldAT, heldFrom, heldRT, clientVars, bookingVars>>

\* a deployment in which all three secrets are set and login tokens verify
InitBodies ==
    /\ InitApi
    /\ env = [JWT_SECRET |-> "k1", ACCESS_TOKEN_SECRET |-> "k1",
              REFRESH_TOKEN_SECRET |-> "k2"]

NextBodies ==
    \/ PostRegister
    \/ PostLogin

SpecBodies == InitBodies /\ [][NextBodies]_vars

\* ========================================================================
\* The browser: the axios instance `api` (frontend/src/lib/api/axios.ts)
\* ========================================================================
\* the browser's state as one value, at the start of a step: no request has
\* settled in it yet
Browser == [token |-> token, location |-> location, jar |-> jar, reqs |-> reqs,
            done |-> NoneSettled, layout |-> layout]

FreeSlots(B) == {i \in Slots : B.reqs[i].phase = "free"}
NewSlot(B) == CHOOSE i \in FreeSlots(B) : \A j \in FreeSlots(B) : i <= j

\* request interceptor: attach the cached token when there is one
requestInterceptor(auth, t) == IF Truthy(t) THEN Bearer(t) ELSE auth

\* the browser sends the rt cookie only to the path it is scoped to
cookieFor(kind, cookies) == IF kind = "refresh" THEN cookies ELSE NoToken

\* api.request(config) for a new config
submit(B, kind, body, parent) ==
    [B EXCEPT !.reqs[NewSlot(B)] =
        Config(kind, requestInterceptor(NoHeader, B.token), cookieFor(kind, B.jar),
               body, parent)]

\* ProtectedLayout mounts: hasToken starts as !!localStorage.getItem("token");
\* its effect calls tryRestoreSession() when there is no token and stops
\* loading otherwise
mount(B) ==
    IF Truthy(B.token)
    THEN [B EXCEPT !.layout = Layout(FALSE, TRUE)]
    ELSE submit([B EXCEPT !.layout = Layout(TRUE, FALSE)], "refresh", NoBody, 0)

\* navigation to `path`: /dashboard is the route of ProtectedLayout
navigate(B, path) ==
    IF path = "/dashboard"
    THEN IF B.layout.mounted
         THEN [B EXCEPT !.location = path]
         ELSE mount([B EXCEPT !.location = path])
    ELSE [B EXCEPT !.location = path, !.layout = Unmounted]

\* the reactions of ProtectedLayout to the promise of tryRestoreSession(),
\* which resolves whether the refresh call succeeded or not:
\* .then(() => setHasToken(true)), .finally(() => setLoading(false))
restored(B) ==
    IF B.layout.mounted THEN [B EXCEPT !.layout = Layout(FALSE, TRUE)] ELSE B

\* localStorage.setItem("token", newToken) in the 401 handler
cacheToken_skipped(newToken, old) == old
cacheToken(newToken, old) == newToken

\* data?.accessToken ?? data?.token
newTokenOf(data) == IF data.accessToken.form # "none" THEN data.accessToken ELSE data.token

\* what the caller of a top-level request does when its promise resolves:
\* LoginForm.onSubmit stores the token and navigates; useLogout.logout clears
\* the token and navigates in its finally block; tryRestoreSession stores
\* the new token and returns it to ProtectedLayout
callerThen(B, kind, res) ==
    CASE kind = "login" -> navigate([B EXCEPT !.token = res.token], "/dashboard")
      [] kind = "logout" -> navigate([B EXCEPT !.token = NoToken], "/login")
      [] kind = "refresh" -> restored([B EXCEPT !.token = res.accessToken])
      [] OTHER -> B

\* ... and when it rejects
\* variant: the cleanup of useLogout runs only when the server call succeeds
callerCatch_noFinally(B, kind) == B

callerCatch(B, kind) ==
    CASE kind = "logout" -> navigate([B EXCEPT !.token = NoToken], "/login")
      [] kind = "refresh" -> restored([B EXCEPT !.token = NoToken])
      [] OTHER -> B

\* The promise of request r rejects with `err`.  When r is the refresh call of
\* a 401 handler, the handler's catch block removes the token and rejects its
\* own request with the same error.
RECURSIVE reject(_, _, _)
reject(B, r, err) ==
    LET c == B.reqs[r]
        B1 == [B EXCEPT !.reqs[r] = FreeSlot]
    IN  IF c.parent # 0
        THEN reject([B1 EXCEPT !.token = NoToken], c.parent, err)
        ELSE callerCatch([B1 EXCEPT !.done = Settled(c, "rejected", err)], c.kind)

\* The promise of request r resolves with `res`.  When r is the refresh call
\* of the 401 handler of request p, the handler goes on after its await.
resolve(B, r, res) ==
    LET c == B.reqs[r]
        p == c.parent
        B1 == [B EXCEPT !.reqs[r] = FreeSlot]
        newToken == newTokenOf(res)
    IN  IF p = 0
        THEN callerThen([B1 EXCEPT !.done = Settled(c, "resolved", res)], c.kind, res)
        ELSE IF Truthy(newToken)
        THEN \* store the token, set the header, api.request(orig)
             LET t == cacheToken(newToken, B.token) IN
             [B1 EXCEPT !.token = t,
                        !.reqs[p].auth = requestInterceptor(Bearer(newToken), t),
                        !.reqs[p].cookie = cookieFor(B.reqs[p].kind, B.jar),
                        !.reqs[p].phase = "sent",
                        !.reqs[p].sends = @ + 1]
        ELSE \* no token in the answer: hard logout unless already on /login,
             \* then Promise.reject(err) with the 401 of p
             LET B2 == IF B.location # "/login"
                       THEN navigate([B1 EXCEPT !.token = NoToken], "/login")
                       ELSE B1
             IN  reject(B2, p, B.reqs[p].res)

\* variant of the error callback: the config is never marked
responseError_unmarked(B, r, res) ==
    IF res.status = 401
    THEN submit([B EXCEPT !.reqs[r].phase = "awaiting",
                          !.reqs[r].res = res,
                          !.reqs[r].refreshes = @ + 1],
                "refresh", NoBody, r)
    ELSE reject(B, r, res)

\* response interceptor, error callback: on a 401 of a config that is not
\* marked, mark it and call the refresh endpoint; otherwise reject
responseError(B, r, res) ==
    IF res.status = 401 /\ ~B.reqs[r].retry
    THEN submit([B EXCEPT !.reqs[r].retry = TRUE,
                          !.reqs[r].phase = "awaiting",
                          !.reqs[r].res = res,
                          !.reqs[r].refreshes = @ + 1],
                "refresh", NoBody, r)
    ELSE reject(B, r, res)

\* the response interceptor: a 2xx response is returned unchanged
responseInterceptor(B, r, res) ==
    IF res.status \in 200..299 THEN resolve(B, r, res) ELSE responseError(B, r, res)

\* the browser applies the Set-Cookie header of a response
setCookie(cookies, res) ==
    CASE res.cookieOp = "set" -> res.cookie
      [] res.cookieOp = "clear" -> NoToken
      [] OTHER -> cookies

\* the body LoginForm posts: the form values and provider "local"
FormBodies ==
    [email : {"a@x.com"}, name : {Undef}, password : {"secret1"},
     provider : {"local"}, provider_id : {Undef}]

\* the server's answer to request c
serve(c) ==
    CASE c.kind = "protected" -> verifyAccessToken(c.auth, env, now)
      [] c.kind = "refresh" -> refresh(c.cookie, env, now)
      [] c.kind = "login" -> loginUser(c.body, users, TRUE, env, now)
      [] c.kind = "logout" -> logoutUser

\* the token lacks nothing but time
ExpiredOnly(t, secret) ==
    t.form = "jwt" /\ secret \in Keys /\ t.sig = secret /\ now >= t.exp

Assign(B) ==
    /\ token' = B.token
    /\ location' = B.location
    /\ jar' = B.jar
    /\ reqs' = B.reqs
    /\ done' = B.done
    /\ layout' = B.layout

\* a page calls a protected endpoint through `api`; the interceptors do not
\* depend on the page, and ProtectedLayout reads localStorage only when it
\* mounts, so a call can be made whatever the cached token is by then
CallProtected ==
    /\ calls < MaxCalls
    /\ FreeSlots(Browser) # {}
    /\ Assign(submit(Browser, "protected", NoBody, 0))
    /\ calls' = calls + 1
    /\ UNCHANGED <<now, serverVars, apiVars, bookingVars>>

\* LoginForm.onSubmit; the button is disabled while a submission is pending
SubmitLogin ==
    \E body \in FormBodies :
        /\ calls < MaxCalls
        /\ FreeSlots(Browser) # {}
        /\ location = "/login"
        /\ \A i \in Slots : reqs[i].kind # "login"
        /\ Assign(submit(Browser, "login", body, 0))
        /\ calls' = calls + 1
        /\ UNCHANGED <<now, serverVars, apiVars, bookingVars>>

\* useLogout.logout, from the Logout button of the protected layout
ClickLogout ==
    /\ calls < MaxCalls
    /\ FreeSlots(Browser) # {}
    /\ location = "/dashboard"
    /\ Renders(layout) = "dashboard"
    /\ Assign(submit(Browser, "logout", NoBody, 0))
    /\ calls' = calls + 1
    /\ UNCHANGED <<now, serverVars, apiVars, bookingVars>>

\* the server handles a request and sends its response
Serve ==
    \E r \in Slots :
        /\ reqs[r].phase = "sent"
        /\ reqs' = [reqs EXCEPT
              ![r].phase = "answered",
              ![r].res = serve(reqs[r]),
              ![r].stale = IF reqs[r].sends = 1
                           THEN /\ reqs[r].kind = "protected"
                                /\ ExpiredOnly(reqs[r].auth.token, env.ACCESS_TOKEN_SECRET)
                                /\ jwt_verify_ok(jar, env.REFRESH_TOKEN_SECRET, now)
                           ELSE @]
        /\ done' = NoneSettled
        /\ UNCHANGED <<token, location, jar, calls, layout, now, serverVars, apiVars, bookingVars>>

\* a response reaches the browser: cookies first, then the interceptors and
\* the promise reactions they trigger, run to completion
Deliver ==
    \E r \in Slots :
        /\ reqs[r].phase = "answered"
        /\ LET res == reqs[r].res
               B == [Browser EXCEPT !.jar = setCookie(jar, res)]
           IN  /\ (res.status = 401 /\ ~reqs[r].retry) => FreeSlots(B) # {}
               /\ Assign(responseInterceptor(B, r, res))
        /\ UNCHANGED <<calls, now, serverVars, apiVars, bookingVars>>

\* a request gets no response (err.response is undefined)
NetworkError ==
    \E r \in Slots :
        /\ reqs[r].phase = "sent"
        /\ Assign(responseInterceptor(Browser, r, NoResponse))
        /\ UNCHANGED <<calls, now, serverVars, apiVars, bookingVars>>

\* the users table holds one registered user
SeedBody == [email |-> "a@x.com", name |-> "Name", password |-> "secret1",
             provider |-> "local", provider_id |-> Undef]

Init ==
    /\ env \in {e \in Envs : e.REFRESH_TOKEN_SECRET = "k2"}
    /\ now = 0
    /\ users = createUser_rows(SeedBody, {}, 1, TRUE)
    /\ nextId = 2
    /\ ApiInit
    /\ ClientInit

Next ==
    \/ Tick
    \/ CallProtected
    \/ SubmitLogin
    \/ ClickLogout
    \/ Serve
    \/ Deliver
    \/ NetworkError

Spec == Init /\ [][Next]_vars

\* ------------------------------------------------------------------------
\* The browser opening the dashboard directly
\* ------------------------------------------------------------------------
\* the user loads a /dashboard URL: the page starts without requests in
\* flight and the router mounts ProtectedLayout
OpenDashboard ==
    /\ calls < MaxCalls
    /\ \A i \in Slots : reqs[i].phase = "free"
    /\ Assign(mount([Browser EXCEPT !.location = "/dashboard", !.layout = Unmounted]))
    /\ calls' = calls + 1
    /\ UNCHANGED <<now, serverVars, apiVars, bookingVars>>

InitLayout == Init

NextLayout ==
    \/ Tick
    \/ CallProtected
    \/ SubmitLogin
    \/ ClickLogout
    \/ OpenDashboard
    \/ Serve
    \/ Deliver
    \/ NetworkError

SpecLayout == InitLayout /\ [][NextLayout]_vars

\* ------------------------------------------------------------------------
\* POST /api/bookings (createBooking, after verifyAccessToken let it pass)
\* ------------------------------------------------------------------------
\* new Date(event_date).getTime() is a number
isDate(s) == s = "2025-09-01T10:00:00Z"

\* a price is written as the string price.toString() gives; Undef is NaN
\* digits of the integer part and of the decimal part of price.toString()
integerDigits(price) == CASE price = "12345678901" -> 11 [] OTHER -> 3
decimalDigits(price) == CASE price = "100.555" -> 3 [] OTHER -> 0
\* isValidPrice(price): a number of at most 10 digits, at most 2 of them
\* after the decimal point
isValidPrice(price) ==
    /\ price # Undef
    /\ integerDigits(price) + decimalDigits(price) <= 10
    /\ decimalDigits(price) <= 2

\* new CreateBookingDTO(body) throws
CreateBookingDTO_throws(b) ==
    \/ ~isString(b.event_date) \/ trim(b.event_date) = ""
    \/ ~isString(b.event_type) \/ trim(b.event_type) = ""
    \/ ~isValidPrice(b.price)
    \/ ~isDate(b.event_date)

\* itemExistsById(id, "clients", db): a failed query is caught and reported
\* as "does not exist"
itemExistsById(id, rows, dbUp) == dbUp /\ id \in rows

\* bookingService.createBooking(dto) throws: the query fails, or the foreign
\* key bookings.client_id -> clients(id) is violated
insertBookingFails(dto, rows, dbUp) == ~dbUp \/ dto.client_id \notin rows

\* createBooking(req, res): the existence check answers 404 without
\* returning, so the insert runs in every case that passed validation
createBooking(body, clientRows, checkUp, insertUp) ==
    IF CreateBookingDTO_throws(body)
    THEN BookingOutcome(<<400>>, 0)
    ELSE LET first == IF itemExistsById(body.client_id, clientRows, checkUp)
                      THEN <<>> ELSE <<404>>
             sendAgain == IF first = <<>> THEN <<>> ELSE <<500>>
         IN  IF insertBookingFails(body, clientRows, insertUp)
             THEN BookingOutcome(first \o <<500>>, 1)
             ELSE \* res.status(201).json() throws when the 404 was sent, and
                  \* the catch block calls res.status(500).json()
                  BookingOutcome(first \o <<201>> \o sendAgain, 1)

\* the bookings table after createBooking
createBooking_rows(body, clientRows, bookingRows, checkUp, insertUp) ==
    IF CreateBookingDTO_throws(body) \/ insertBookingFails(body, clientRows, insertUp)
    THEN bookingRows
    ELSE bookingRows \cup {[id |-> Cardinality(bookingRows) + 1,
                            client_id |-> body.client_id,
                            event_type |-> trim(body.event_type),
                            price |-> body.price, status |-> "pending"]}

BookingBodies ==
    [client_id : 1..(MaxClients + 1),
     event_date : {"2025-09-01T10:00:00Z", "soon", " ", Undef},
     event_type : {"wedding", " ", Undef},
     price : {"100", "100.555", "12345678901", Undef}]

PostBooking ==
    \E body \in BookingBodies, checkUp \in BOOLEAN, insertUp \in BOOLEAN :
        /\ Cardinality(bookings) < MaxBookings
        /\ brq' = body
        /\ brs' = createBooking(body, clients, checkUp, insertUp)
        /\ bookings' = createBooking_rows(body, clients, bookings, checkUp, insertUp)
        /\ UNCHANGED <<clients, env, now, users, nextId, apiVars, clientVars>>

\* the clients table holds any rows (schema-queries seeds it)
InitBookings ==
    /\ ServerInit
    /\ env = [JWT_SECRET |-> "k1", ACCESS_TOKEN_SECRET |-> "k1", REFRESH_TOKEN_SECRET |-> "k2"]
    /\ ApiIdle
    /\ ClientInit
    /\ clients \in SUBSET (1..MaxClients)
    /\ bookings = {}
    /\ brq = NoBookingBody
    /\ brs = NoBookingOutcome

NextBookings == PostBooking

SpecBookings == InitBookings /\ [][NextBookings]_vars

\* ========================================================================
\* Properties of the server (SpecApi)
\* ========================================================================
\* the token was signed with `secret` and had not expired when the request
\* was handled
SignedAndFresh(t, secret, at) ==
    t.form = "jwt" /\ secret \in Keys /\ t.sig = secret /\ at < t.exp

\* the Authorization header has the form "Bearer <token>"
BearerForm(h) == h.present /\ h.scheme = "Bearer" /\ h.parts >= 2

\* C6: the route handler behind verifyAccessToken runs only for a bearer token
\* signed with ACCESS_TOKEN_SECRET whose exp is later than the time of the
\* check; when it runs it runs once and it alone answers the request.
C6_HandlerOnlyForValidToken ==
    rq.route = "protected" =>
        /\ rs.next \in {0, 1}
        /\ rs.next = 1 =>
              /\ BearerForm(rq.header)
              /\ SignedAndFresh(rq.header.token, env.ACCESS_TOKEN_SECRET, now)
              /\ rs.sent = 1
        /\ (rq.header.token.sig # env.ACCESS_TOKEN_SECRET \/ now >= rq.header.token.exp)
              => rs.next = 0

\* a token that is valid one tick before its expiry has been accepted
C6_Witness ==
    /\ rq.route = "protected"
    /\ rs.next = 1
    /\ rs.status = 200
    /\ now + 1 = rq.header.token.exp

C8_IssueThenVerify ==
    (/\ rq.route = "protected"
     /\ heldFrom \in {"login", "register"}
     /\ rq.header = Bearer(heldAT)
     /\ now < heldAT.exp)
    => (rs.next = 1 /\ rs.status = 200 /\ rs.reqUser = heldAT.payload)

\* C9: a refresh cookie that verifies against REFRESH_TOKEN_SECRET and is
\* unexpired is answered 200 with a new access token whose sub is the
\* cookie's sub.
C9_RefreshMintsForSubject ==
    (/\ rq.route = "refresh"
     /\ SignedAndFresh(rq.cookie, env.REFRESH_TOKEN_SECRET, now))
    => (/\ rs.status = 200
        /\ rs.accessToken.form = "jwt"
        /\ rs.accessToken.iat = now
        /\ rs.accessToken.payload.sub = rq.cookie.payload.sub)

\* C10: a refresh request without cookie, or with one that is tampered,
\* signed with another secret or expired, is answered 401 and the response
\* carries no token.
C10_RefreshRejects ==
    (/\ rq.route = "refresh"
     /\ ~SignedAndFresh(rq.cookie, env.REFRESH_TOKEN_SECRET, now))
    => (/\ rs.status = 401
        /\ rs.accessToken = NoToken
        /\ rs.token = NoToken
        /\ rs.cookieOp = "none")

\* the cookie set by login has been presented after its expiry and refused
C10_Witness ==
    /\ rq.route = "refresh"
    /\ rq.cookie.form = "jwt"
    /\ rq.cookie.sig = env.REFRESH_TOKEN_SECRET
    /\ now >= rq.cookie.exp
    /\ rs.status = 401
\* ========================================================================
\* Properties of the client (Spec)
\* ========================================================================
Live == {r \in Slots : reqs[r].phase # "free"}

\* the refresh calls a 401 handler of request r is waiting for
RefreshCallsOf(r) == {c \in Live : reqs[c].kind = "refresh" /\ reqs[c].parent = r}

\* per request: at most one refresh call, at most one resubmission
C1_Counts ==
    /\ \A r \in Live :
          /\ reqs[r].refreshes <= 1
          /\ reqs[r].sends <= 1 + reqs[r].refreshes
          /\ Cardinality(RefreshCallsOf(r)) <= 1
    /\ done.refreshes <= 1
    /\ done.sends <= 2
\* a resubmitted request answered 401 settles as rejected, without a refresh
C1_SecondFailurePropagates ==
    \A r \in Slots :
        (/\ reqs[r].phase = "answered"
         /\ reqs[r].sends >= 2
         /\ reqs[r].res.status = 401
         /\ reqs'[r] # reqs[r])
        => /\ reqs'[r] = FreeSlot
           /\ \A c \in Slots : reqs'[c].parent # r
           /\ done'.outcome = "rejected"
           /\ done'.status = 401
\* C1: for every request the 401 handler calls the refresh endpoint at most
\* once and submits the request again at most once; when the request that was
\* submitted again is answered 401 once more, its promise rejects and no
\* further refresh call is made for it.
C1_RefreshOnceRetryOnce == []C1_Counts /\ [][C1_SecondFailurePropagates]_vars
\* a request that was submitted again after its refresh is answered 401 again
C1_Witness ==
    \E r \in Slots :
        /\ reqs[r].phase = "answered"
        /\ reqs[r].retry
        /\ reqs[r].sends = 2
        /\ reqs[r].refreshes = 1
        /\ reqs[r].res.status = 401

\* C2: a protected call made with an access token that has expired, while the
\* refresh cookie is valid, is answered 401, refreshed, submitted again exactly
\* once, and then succeeds.
C2_ExpiredTokenRecovers ==
    (/\ done.kind = "protected"
     /\ done.stale
     /\ done.status # 0
     /\ jwt_verify_ok(jar, env.REFRESH_TOKEN_SECRET, now))
    => /\ done.outcome = "resolved"
       /\ done.refreshes = 1
       /\ done.sends = 2

\* C3: when several requests have been answered 401 and their handlers wait
\* for a refresh, exactly one refresh call is in flight for all of them.
C3_SingleFlight ==
    LET waiting == {r \in Live : reqs[r].phase = "awaiting" /\ reqs[r].kind # "refresh"}
        calls401 == {c \in Live : reqs[c].parent \in waiting}
    IN  waiting # {} => Cardinality(calls401) = 1

\* a waiting handler gives up: its request settles without resubmission
C4_Step ==
    \A r \in Slots :
        (reqs[r].phase = "awaiting" /\ reqs'[r].phase = "free")
        => (token' = NoToken /\ location' = "/login")
\* C4: whenever the refresh call of a 401 handler fails, the cached token is
\* cleared and the client is at the login page.
C4_RefreshFailureLogsOut == [][C4_Step]_vars

\* the answer of a refresh call with a token reaches its handler: the token
\* is cached and the handler's request is sent again with it; and a handler
\* sends its request again in no other way
C5_Step ==
    /\ \A c \in Slots :
          (/\ reqs[c].parent # 0
           /\ reqs[c].phase = "answered"
           /\ reqs[c].res.status \in 200..299
           /\ Truthy(newTokenOf(reqs[c].res))
           /\ reqs'[c] # reqs[c])
          => /\ token' = newTokenOf(reqs[c].res)
             /\ reqs'[reqs[c].parent].phase = "sent"
             /\ reqs'[reqs[c].parent].auth = Bearer(newTokenOf(reqs[c].res))
             /\ reqs'[reqs[c].parent].sends = reqs[reqs[c].parent].sends + 1
    /\ \A r \in Slots :
          (reqs[r].phase = "awaiting" /\ reqs'[r].phase = "sent")
          => \E c \in RefreshCallsOf(r) :
                /\ reqs[c].phase = "answered"
                /\ token' = newTokenOf(reqs[c].res)
                /\ reqs'[r].auth = Bearer(token')
\* C5: when the refresh call of a 401 handler succeeds, the token it returned
\* is the cached token and the request is submitted again with exactly that
\* token as its Bearer credential, whatever happened while the handler waited.
C5_RetryCarriesNewToken == [][C5_Step]_vars
\* a request has been submitted again with the token of its refresh call,
\* which is the cached token
C5_Witness ==
    \E r \in Slots :
        /\ reqs[r].phase = "sent"
        /\ reqs[r].sends = 2
        /\ reqs[r].auth = Bearer(token)
        /\ token.payload.sub # Undef
        /\ calls >= 2

\* C17: when the client's logout has finished, whether its server call
\* succeeded or failed, the cached access token is absent and the client is
\* on the login page.
C17_LogoutAlwaysCleans ==
    (done.kind = "logout" /\ done.outcome # "none")
        => (token = NoToken /\ location = "/login")
\* a logout finished although its server call failed
C17_Witness ==
    /\ done.kind = "logout"
    /\ done.outcome = "rejected"
    /\ token = NoToken
    /\ location = "/login"

\* ========================================================================
\* Properties of the server (SpecApi), second part
\* ========================================================================
\* the refresh endpoint would mint a token for cookie value c now
RefreshAccepts(c) ==
    jwt_verify_ok(c, env.REFRESH_TOKEN_SECRET, now) /\ ~SignThrows(env.ACCESS_TOKEN_SECRET)

\* the request handled right after a logout is a refresh presenting the cookie
\* value the caller held before the logout: it is answered 401
C11_Step ==
    (/\ rq.route = "logout"
     /\ rq'.route = "refresh"
     /\ heldRT.form = "jwt"
     /\ rq'.cookie = heldRT)
    => rs'.status = 401
\* C11: after a logout, a GET /refresh that presents the refresh cookie value
\* held before the logout is answered 401.
C11_OldCookieRejected == [][C11_Step]_vars

\* logout answers 204 and clears the cookie at the path it was set for
C11_LogoutClears ==
    rq.route = "logout"
    => /\ rs.status = 204
       /\ rs.cookieOp = "clear"
       /\ rs.cookiePath = "/api/auth/refresh"
       /\ ~Truthy(setCookie(heldRT, rs))
\* a refresh that presents what a browser holds after the logout response
C11_AfterClearStep ==
    (/\ rq.route = "logout"
     /\ rq'.route = "refresh"
     /\ rq'.cookie = setCookie(heldRT, rs))
    => (rs'.status = 401 /\ rs'.accessToken = NoToken)
\* C11 (amended): logout answers 204 and clears the rt cookie at its path, so a
\* GET /refresh from the browser that received the answer carries no cookie
\* and is answered 401; the server keeps no record of the logout.
C11_LogoutClearsCookie == []C11_LogoutClears /\ [][C11_AfterClearStep]_vars
\* a logout was handled while the cookie value the caller holds is one the
\* refresh endpoint accepts
C11_Witness ==
    /\ rq.route = "logout"
    /\ RefreshAccepts(heldRT)

\* the credentials of a well-formed login body are bad: no row has the
\* email, or the password does not match the hash of the row that has it
UnknownEmail(b) == \A u \in users : u.email # LoginUserDTO(b).email
WrongPassword(b) ==
    \E u \in users : /\ u.email = LoginUserDTO(b).email
                     /\ ~bcrypt_compare(LoginUserDTO(b).password, u.password_hash)

\* C12: POST /login with a well-formed body is answered 401 when no credential
\* exists for the email and 401 when the password does not match; never 5xx
\* (the store answered the query).
C12_BadCredentials401 ==
    (/\ rq.route = "login"
     /\ ~LoginUserDTO_throws(rq.body)
     /\ rs.msg # "query failed"
     /\ (UnknownEmail(rq.body) \/ WrongPassword(rq.body)))
    => rs.status = 401

\* the shape of what loginUser signs for the rt cookie: {sub}, expiresIn "1h",
\* signed with REFRESH_TOKEN_SECRET
IsRefreshToken(t) ==
    /\ t.form = "jwt"
    /\ t.sig = env.REFRESH_TOKEN_SECRET
    /\ t.payload.sub # Undef
    /\ t.payload.email = Undef
    /\ t.exp - t.iat = span("1h")

\* C14: a successful login delivers the refresh token as an httpOnly,
\* SameSite=strict cookie scoped to the path of the refresh endpoint, and no
\* response body of any endpoint contains a refresh token; the login body
\* carries the access token and the principal.
C14_RefreshTokenOnlyInCookie ==
    /\ (rq.route = "login" /\ rs.status = 200)
       => /\ rs.cookieOp = "set"
          /\ IsRefreshToken(rs.cookie)
          /\ rs.httpOnly
          /\ rs.sameSite = "strict"
          /\ rs.cookiePath = "/api/auth/refresh"
          /\ rs.token.form = "jwt"
          /\ rs.user \in users
    /\ rs.cookieOp = "set" => (rq.route = "login" /\ rs.status = 200)
    /\ ~IsRefreshToken(rs.token)
    /\ ~IsRefreshToken(rs.accessToken)
    /\ rs.token # rs.cookie \/ rs.cookie = NoToken
    /\ rs.token # heldRT \/ heldRT = NoToken
    /\ rs.accessToken # heldRT \/ heldRT = NoToken
\* a login succeeded
C14_Witness ==
    /\ rq.route = "login"
    /\ rs.status = 200
    /\ IsRefreshToken(rs.cookie)

\* a refresh token as bearer token is rejected by the middleware; an access
\* token as rt cookie is rejected by the refresh endpoint
C15_Apart ==
    /\ (/\ rq.route = "protected"
        /\ rq.header = Bearer(heldRT)
        /\ IsRefreshToken(heldRT))
       => (rs.status = 403 /\ rs.next = 0)
    /\ (/\ rq.route = "refresh"
        /\ rq.cookie = heldAT
        /\ heldAT.form = "jwt")
       => (rs.status = 401 /\ rs.accessToken = NoToken)
\* C15: access and refresh tokens are kept apart by their secrets: a refresh
\* token presented as a bearer token is rejected by the protected-route
\* middleware, and an access token (from login, registration or refresh)
\* presented as the refresh cookie is rejected by the refresh endpoint.
C15_TokensKeptApart == C15_Apart

\* the refresh secret is configured with a value of its own
OwnRefreshSecret ==
    env.REFRESH_TOKEN_SECRET \notin {env.ACCESS_TOKEN_SECRET, env.JWT_SECRET}
\* C15 (amended): when REFRESH_TOKEN_SECRET is configured with a value other
\* than those of ACCESS_TOKEN_SECRET and JWT_SECRET, a refresh token presented
\* as a bearer token is rejected by the middleware and an access token
\* presented as the refresh cookie is rejected by the refresh endpoint.
C15_ApartWhenSecretsDiffer == OwnRefreshSecret => C15_Apart
\* an unexpired refresh token was presented as bearer token and rejected, in a
\* deployment whose middleware can accept tokens
C15_Witness ==
    /\ OwnRefreshSecret
    /\ env.ACCESS_TOKEN_SECRET # Absent
    /\ rq.route = "protected"
    /\ rq.header = Bearer(heldRT)
    /\ IsRefreshToken(heldRT)
    /\ now < heldRT.exp
    /\ rs.status = 403

\* the time between a token's issue and its expiry
Lifetime(t) == t.exp - t.iat
\* C16: the lifetime of every refresh token issued is strictly longer than
\* the lifetime of every access token issued, whether the access token comes
\* from login, from registration or from the refresh endpoint.
C16_RefreshOutlivesAccess ==
    \A r \in {rs.cookie, heldRT} : \A a \in {rs.token, rs.accessToken, heldAT} :
        (r.form = "jwt" /\ a.form = "jwt") => Lifetime(r) > Lifetime(a)

\* C18: a failed login is answered the same way, with the same status and the
\* same message, whether the email is unknown or the password is wrong: the
\* answer to a login with a wrong password is the answer the server gives to
\* a login with an unknown email.
C18_SameFailure ==
    (/\ rq.route = "login"
     /\ ~LoginUserDTO_throws(rq.body)
     /\ rs.msg # "query failed"
     /\ WrongPassword(rq.body))
    => \A b \in LoginBodies :
          (~LoginUserDTO_throws(b) /\ UnknownEmail(b))
          => LET other == loginUser(b, users, TRUE, env, now)
             IN  other.status = rs.status /\ other.msg = rs.msg

\* ========================================================================
\* Properties of registration and login (SpecBodies)
\* ========================================================================
\* a row that a registration with provider local, the email of body b and the
\* password of body b has stored
RegisteredWith(b) ==
    {u \in users : /\ u.provider = "local"
                   /\ isString(b.email)
                   /\ u.email = toLowerCase(trim(b.email))
                   /\ isString(b.password)
                   /\ trim(b.password) # ""
                   /\ u.password_hash = bcrypt_hash(b.password)}

\* C13: after a registration with provider local, email e and password p was
\* accepted, a login with the same e, the same p and provider local is
\* answered 200 with an access token (the store answered the query).
C13_RegisterThenLogin ==
    (/\ rq.route = "login"
     /\ rq.body.provider = "local"
     /\ RegisteredWith(rq.body) # {}
     /\ rs.msg # "query failed")
    => (rs.status = 200 /\ rs.token.form = "jwt")

\* the provider a body names, trimmed and in lower case
NamedProvider(b) == IF isString(b.provider) THEN toLowerCase(trim(b.provider)) ELSE Undef
\* the body carries no password, or a blank one
BlankPassword(b) == ~isString(b.password) \/ trim(b.password) = ""
\* a body that fails the shape validation of registration and login
InvalidShape(b) ==
    \/ ~isString(b.email) \/ trim(b.email) = ""
    \/ ~isString(b.provider) \/ trim(b.provider) = ""
    \/ NamedProvider(b) \notin {"local", "google", "github"}
    \/ (NamedProvider(b) = "local" /\ BlankPassword(b))
\* C19: a registration or login body that fails the shape validation (email
\* or provider empty or not a string, provider outside local, google, github,
\* provider local without a non-empty password) is answered 400; the store is
\* not queried and no token and no cookie is issued.
C19_InvalidShape400 ==
    (rq.route \in {"register", "login"} /\ InvalidShape(rq.body))
    => /\ rs.status = 400
       /\ rs.queries = 0
       /\ rs.token = NoToken
       /\ rs.accessToken = NoToken
       /\ rs.cookieOp = "none"
       /\ rs.user = NoUser

\* C20: every credential stored with provider local was registered with a
\* non-empty password: a registration whose provider is accepted and
\* normalised to local while the password is missing or blank is answered
\* with a validation error and stores nothing.
C20_LocalHasPassword ==
    /\ \A u \in users :
          u.provider = "local"
          => u.password_hash \notin {bcrypt_hash(p) : p \in {"", " "}}
    /\ (/\ rq.route = "register"
        /\ NamedProvider(rq.body) = "local"
        /\ BlankPassword(rq.body))
       => (rs.status = 400 /\ rs.queries = 0 /\ rs.user = NoUser)

\* the row carries a password hash
HasHash(u) == u.password_hash \notin {Undef, ""}
\* C21: after any sequence of accepted registrations every stored credential
\* has a password_hash if and only if its provider is local, and no two
\* stored credentials share the same (email, provider) pair.
C21_HashIffLocal ==
    /\ \A u \in users : HasHash(u) <=> u.provider = "local"
    /\ \A u, v \in users :
          (u.email = v.email /\ u.provider = v.provider) => u = v

\* C22: on every successful use of the refresh endpoint a new refresh token
\* is minted and the rt cookie is overwritten with it.
C22_RefreshRotates ==
    (rq.route = "refresh" /\ rs.status = 200)
    => /\ rs.cookieOp = "set"
       /\ rs.cookie.form = "jwt"
       /\ rs.cookie.sig = env.REFRESH_TOKEN_SECRET
       /\ rs.cookiePath = "/api/auth/refresh"

\* C23: a process whose configuration lacks the access secret or the refresh
\* secret fails at startup, so a process that answers requests has both; no
\* token is signed or verified with an absent secret: the middleware reaches
\* jwt.verify only with ACCESS_TOKEN_SECRET set, the refresh endpoint only
\* with REFRESH_TOKEN_SECRET set, and login reaches jwt.sign of the refresh
\* token only with REFRESH_TOKEN_SECRET set.
C23_SecretsPresent ==
    /\ rq.route # "none"
       => (env.ACCESS_TOKEN_SECRET # Absent /\ env.REFRESH_TOKEN_SECRET # Absent)
    /\ (rq.route = "protected" /\ startsWithBearer(rq.header))
       => env.ACCESS_TOKEN_SECRET # Absent
    /\ (rq.route = "refresh" /\ rs.msg # "Missing refresh token")
       => env.REFRESH_TOKEN_SECRET # Absent
    /\ (rq.route = "login" /\ rs.msg = "secretOrPrivateKey must have a value")
       => env.REFRESH_TOKEN_SECRET # Absent

\* messages of store and integrity errors
InternalMessages == {"query failed", "Error: More than 1 user has email"}
\* C24: store and integrity errors reach the caller only as an opaque server
\* error: no server-error response of the register or login endpoint carries
\* a stack trace or the internal error message.
C24_OpaqueErrors ==
    (rq.route \in {"register", "login"} /\ rs.status >= 500)
    => (~rs.stack /\ rs.msg \notin InternalMessages)

\* C25: whenever the middleware accepts a request that presents an access
\* token issued by login, registration or refresh, the principal it attaches
\* to the request carries both the subject id and the email of the user the
\* token was issued for, whichever operation issued the token.
C25_PrincipalComplete ==
    (rq.route = "protected" /\ rq.header = Bearer(heldAT) /\ rs.next = 1)
    => \E u \in users :
          /\ rs.reqUser.email = u.email
          /\ (rs.reqUser.id = u.id \/ rs.reqUser.sub = String(u.id))

\* ========================================================================
\* Properties of the protected layout (SpecLayout)
\* ========================================================================
\* C26: when no token is cached and the session restore through the refresh
\* endpoint has failed, ProtectedLayout redirects to /login and does not
\* render the dashboard.
C26_FailedRestoreRedirects ==
    (/\ done.kind = "refresh"
     /\ done.outcome = "rejected"
     /\ token = NoToken)
    => (Renders(layout) # "dashboard" /\ (Renders(layout) = "redirect" \/ location = "/login"))

\* C27 is a property of the client of Spec.
\* C27: handling a 401 terminates: a refresh call made by a 401 handler that
\* is answered 401 itself triggers no further refresh call, so the refresh
\* calls caused by one failed request form no chain.
C27_NoNestedRefresh ==
    \A c \in Live :
        (reqs[c].kind = "refresh" /\ reqs[c].parent # 0)
        => (reqs[c].refreshes = 0 /\ RefreshCallsOf(c) = {})

\* a logout has just finished and removed the cached token: the step that
\* follows caches a token only when it is a login that succeeds
C28_Step ==
    (done.kind = "logout" /\ done.outcome # "none" /\ token = NoToken)
    => \/ token' = NoToken
       \/ (done'.kind = "login" /\ done'.outcome = "resolved")
\* C28: once logout has removed the cached access token, a refresh that was
\* already in flight does not cache a token again: the cached token stays
\* absent until the next login.
C28_NoTokenAfterLogout == [][C28_Step]_vars

\* a 401 handler whose refresh succeeded has just settled, the token is
\* cached, and the refresh of another 401 handler, which was waiting
\* meanwhile, fails in this step: the token is still cached afterwards
C29_Step ==
    (/\ done.kind = "protected"
     /\ done.outcome = "resolved"
     /\ done.refreshes = 1
     /\ Truthy(token)
     /\ \E p \in Slots :
           /\ reqs[p].kind = "protected"
           /\ reqs[p].phase = "awaiting"
           /\ reqs'[p].phase = "free"
     /\ done'.outcome = "rejected")
    => token' = token
\* C29: when two 401 handlers run concurrently and the refresh of one succeeds
\* while the refresh of the other fails, the access token cached by the
\* successful one is still cached after both handlers have settled.
C29_SuccessfulTokenKept == [][C29_Step]_vars

\* ========================================================================
\* Properties of the bookings endpoint (SpecBookings)
\* ========================================================================
\* C30: POST /api/bookings sends exactly one response per request; when no
\* client with the given client_id exists, or the existence check fails, the
\* answer is the error status and the booking insert is not attempted.
C30_OneResponseNoInsert ==
    /\ brs # NoBookingOutcome => Len(brs.statuses) = 1
    /\ (~CreateBookingDTO_throws(brq) /\ brq.client_id \notin clients)
       => /\ brs.statuses[1] \in {404, 500}
          /\ brs.inserts = 0
    /\ (brs.statuses # <<>> /\ brs.statuses[1] = 404)
       => (brs.inserts = 0 /\ \A b \in bookings : b.client_id # brq.client_id)

====
